---- MODULE Spec2Model ----
(***************************************************************************)
(* Guided component generator: the output extractor (generator.py), the    *)
(* design rule validator (validator.py) and the correction loop            *)
(* (corrector.py), with the HTTP endpoint of main.py.                      *)
(*                                                                         *)
(* A text is a sequence of lines (the Python string is the lines joined by *)
(* "\n").  Every line a response is made of carries its markers at the    *)
(* start of the line and none ends in a comma, so each regular expression  *)
(* of the source acts on whole lines; the tables that say which line       *)
(* matches which expression are the expressions applied to the line.       *)
(***************************************************************************)
EXTENDS Integers, Sequences, FiniteSets, TLC

\* ------------------------------------------------------------------ lines
\* Lines a model response is made of.
\* A code fence line; the three quotes stand for three backticks, which a
\* TLA+ string cannot hold.
FENCE == "'''typescript"
NOISE == "Auto-correcting..."
SEP == "---HTML---"
SEP_SPACED == "--- HTML ---"
DASHES == "---"
PROSE == "Here is your component:"
IMPORT_COMMON == "import { CommonModule } from '@angular/common';"
COMPONENT_OPEN == "@Component({"
COMPONENT_CLOSE == "})"
TEMPLATE == "template: '<p>Hi</p>'"
TEMPLATE_URL_OTHER == "templateUrl: './login.component.html'"
IMPORTS_COMMON == "imports: [CommonModule]"
IMPORTS_BOTH == "imports: [CommonModule, FormsModule]"
CLASS == "export class AppComponent { font = 'Inter'; }"
INPUT == "<input [(ngModel)]=\"name\">"
DIV == "<div>Hi</div>"
P_BLACK == "<p style=\"color: #000000\">Hi</p>"
P_WHITE == "<p style=\"color: #FFFFFF\">Hi</p>"
P_BAD == "<p style=\"color: #000000; border-radius: 5px\">Hi</p>"
RADIUS_CSS == "<p style=\"border-radius: 16px\">Hi</p>"
ROUNDED_LG == "<p class=\"rounded-lg\">Hi</p>"
ROUNDED_BRACKET == "<p class=\"rounded-[12px]\">Hi</p>"
ROUNDED_PX == "<p class=\"rounded-16px\">Hi</p>"
CALL_OPEN == "console.log({"
ARRAY_OPEN == "items = ["

\* Lines the code writes or leaves behind.
BLANK == ""
IMPORT_FORMS == "import { FormsModule } from '@angular/forms';"
IMPORTS_INSERT == "  imports: [CommonModule, FormsModule],"
TEMPLATE_URL_INSERT == "  templateUrl: './app.component.html',"
TEMPLATE_URL_CANON == "templateUrl: './app.component.html'"
TEMPLATE_BODY == "<p>Hi</p>"
TEMPLATE_TAIL == "<p>Hi</p>'"
SEP_CUT == "---HTML"
SEP_SPACED_CUT == "--- HTML"

\* ---------------------------------------------------------- text helpers
\* A text: its lines, in order.
Text == Seq(STRING)

\* An artifact before the raw response is attached: source and markup.
Code == [ts : Text, html : Text]

\* The least index of a line of t in the set S, 0 when there is none
\* (re.search: the first match).
RECURSIVE FirstIn(_, _, _)
FirstIn(t, S, i) ==
  IF i > Len(t) THEN 0
  ELSE IF t[i] \in S THEN i
  ELSE FirstIn(t, S, i + 1)

First(t, S) == FirstIn(t, S, 1)

\* str.strip on a text: leading and trailing blank lines go.
LStrip[t \in Text] ==
  IF t = << >> THEN << >>
  ELSE IF Head(t) = BLANK THEN LStrip[Tail(t)]
  ELSE t

RStrip[t \in Text] ==
  IF t = << >> THEN << >>
  ELSE IF t[Len(t)] = BLANK THEN RStrip[SubSeq(t, 1, Len(t) - 1)]
  ELSE t

Strip[t \in Text] == RStrip[LStrip[t]]

\* Whether the line l is the line m with characters left out, for the lines
\* the code cuts or normalises.
LineWithin(l, m) ==
  \/ l = m
  \/ <<l, m>> \in {<<SEP_CUT, SEP>>, <<SEP_SPACED_CUT, SEP_SPACED>>,
                   <<SEP, SEP_SPACED>>, <<SEP_CUT, SEP_SPACED>>,
                   <<TEMPLATE_TAIL, TEMPLATE>>}

\* Whether s is a subsequence of t: t with lines, or characters of a line,
\* left out.
IsSubsequence[s \in Text, t \in Text] ==
  IF s = << >> THEN TRUE
  ELSE IF t = << >> THEN FALSE
  ELSE IF LineWithin(Head(s), Head(t)) THEN IsSubsequence[Tail(s), Tail(t)]
  ELSE IsSubsequence[s, Tail(t)]

\* t with the line x put in after the line at index i.
InsertAfter(t, i, x) == SubSeq(t, 1, i) \o <<x>> \o SubSeq(t, i + 1, Len(t))

\* The number of lines of t that are in S.
Occurrences(t, S) == Cardinality({i \in DOMAIN t : t[i] \in S})

\* ------------------------------------------------- the patterns, per line
\* line.strip().startswith of three backticks
FenceLines == {FENCE}
\* ^\s*(Attempt\s+\d+\s+failed.*|Auto-correcting\.*|INFO:.*)\s*$
NoiseLines == {NOISE}
\* -{3,}\s*HTML\s*-{3,}, ignoring case
SeparatorLines == {SEP, SEP_SPACED}
\* <(div|section|button|nav|header|footer|a\b), ignoring case
HtmlTagLines == {DIV}
\* (import|@Component|export|import\s+\{), ignoring case
SourceStartLines ==
  {IMPORT_COMMON, IMPORT_FORMS, COMPONENT_OPEN, IMPORTS_COMMON, IMPORTS_BOTH, CLASS}
\* <
LtLines ==
  {DIV, INPUT, P_BLACK, P_WHITE, P_BAD, RADIUS_CSS, ROUNDED_LG, ROUNDED_BRACKET,
   ROUNDED_PX, TEMPLATE, TEMPLATE_BODY, TEMPLATE_TAIL}
\* template\s*:\s*(quote)([\s\S]*?)\1
TemplateLines == {TEMPLATE}
\* templateUrl\s*:\s*['"]
TemplateUrlLines == {TEMPLATE_URL_OTHER, TEMPLATE_URL_CANON, TEMPLATE_URL_INSERT}
\* \bngModel\b
NgModelLines == {INPUT}
\* "@angular/forms" in ts_code
AngularFormsLines == {IMPORT_FORMS}
\* imports\s*:\s*\[[^\]]*\]
ImportsArrayLines == {IMPORTS_COMMON, IMPORTS_BOTH, IMPORTS_INSERT}
\* @Component\s*\(\s*\{
DecoratorOpenLines == {COMPONENT_OPEN}

\* line[m.start():] for the first "<" of the line.
FromLt(l) == IF l = TEMPLATE THEN TEMPLATE_TAIL ELSE l

\* The line with \s*([-]{3,}|[backtick]{3,})\s*$ taken off its end.
CutTrailing(l) ==
  CASE l = DASHES -> BLANK
    [] l = SEP -> SEP_CUT
    [] l = SEP_SPACED -> SEP_SPACED_CUT
    [] OTHER -> l

\* _add_to_imports: the imports array with FormsModule added, unless
\* 'FormsModule' is in it.
AddToImports(l) == IF l = IMPORTS_COMMON THEN IMPORTS_BOTH ELSE l

\* templateUrl\s*:\s*['"][^'"]+['"] replaced by the canonical reference.
NormaliseTemplateUrl(l) ==
  CASE l = TEMPLATE_URL_OTHER -> TEMPLATE_URL_CANON
    [] OTHER -> l

\* ------------------------------------------------- generator.py, the text
\* _clean_output: the lines that are no code fence, stripped.
DropFences[t \in Text] ==
  IF t = << >> THEN << >>
  ELSE IF Head(t) \in FenceLines THEN DropFences[Tail(t)]
  ELSE <<Head(t)>> \o DropFences[Tail(t)]

clean_output[text \in Text] == Strip[DropFences[text]]

\* The diagnostic lines replaced by the empty string: each becomes a blank
\* line.  The substitution of "(no html ...)" notes that follows finds
\* nothing, no line holding such a note.
strip_noise[cleaned \in Text] ==
  [i \in DOMAIN cleaned |-> IF cleaned[i] \in NoiseLines THEN BLANK ELSE cleaned[i]]

\* Mutant: the fallback split keeps the whole text as the source part.
split_parts_overlap(cleaned) ==
  LET sep == First(cleaned, SeparatorLines)
      html_split == First(cleaned, HtmlTagLines)
  IN  IF sep > 0
        THEN [ts_part |-> SubSeq(cleaned, 1, sep - 1),
              html_part |-> SubSeq(cleaned, sep + 1, Len(cleaned))]
      ELSE IF html_split > 0
        THEN [ts_part |-> cleaned,
              html_part |-> SubSeq(cleaned, html_split, Len(cleaned))]
      ELSE [ts_part |-> cleaned, html_part |-> << >>]

\* The split at the first separator; without one, at the first markup start
\* tag; without either, all of the text is the source part.
split_parts(cleaned) ==
  LET sep == First(cleaned, SeparatorLines)
      html_split == First(cleaned, HtmlTagLines)
  IN  IF sep > 0
        THEN [ts_part |-> SubSeq(cleaned, 1, sep - 1),
              html_part |-> SubSeq(cleaned, sep + 1, Len(cleaned))]
      ELSE IF html_split > 0
        THEN [ts_part |-> SubSeq(cleaned, 1, html_split - 1),
              html_part |-> SubSeq(cleaned, html_split, Len(cleaned))]
      ELSE [ts_part |-> cleaned, html_part |-> << >>]

\* ts_part[ts_match.start():] if ts_match else ts_part
skip_to_source[ts_part \in Text] ==
  LET ts_match == First(ts_part, SourceStartLines)
  IN  IF ts_match > 0 THEN SubSeq(ts_part, ts_match, Len(ts_part)) ELSE ts_part

\* html_part[html_match.start():] if html_match else html_part
skip_to_markup[html_part \in Text] ==
  LET html_match == First(html_part, LtLines)
  IN  IF html_match > 0
        THEN <<FromLt(html_part[html_match])>>
             \o SubSeq(html_part, html_match + 1, Len(html_part))
      ELSE html_part

\* re.sub of the trailing dashes or backticks, on the stripped text: one
\* match, at the end of the text.
strip_trailing[code \in Text] ==
  LET t == Strip[code]
      last == t[Len(t)]
  IN  IF t = << >> THEN << >>
      ELSE IF CutTrailing(last) = last THEN t
      ELSE IF CutTrailing(last) = BLANK THEN RStrip[SubSeq(t, 1, Len(t) - 1)]
      ELSE SubSeq(t, 1, Len(t) - 1) \o <<CutTrailing(last)>>

\* The first inline template property taken out of the source,
\* ",?\s*template..." with the white space before it: the line goes, with the
\* blank lines before it; a first line leaves an empty one.  The two comma
\* clean-ups that follow find nothing, no line ending in a comma.
remove_template[ts_code \in Text, i \in Nat] ==
  IF i = 1 THEN <<BLANK>> \o SubSeq(ts_code, 2, Len(ts_code))
  ELSE RStrip[SubSeq(ts_code, 1, i - 1)] \o SubSeq(ts_code, i + 1, Len(ts_code))

\* templateUrl put in after the first "@Component({", unless the source has
\* a templateUrl.
insert_template_url[ts_code \in Text] ==
  LET deco == First(ts_code, DecoratorOpenLines)
  IN  IF First(ts_code, TemplateUrlLines) > 0 \/ deco = 0 THEN ts_code
      ELSE InsertAfter(ts_code, deco, TEMPLATE_URL_INSERT)

\* The inline template moved to the markup, when the markup is empty.
extract_template[code \in Code] ==
  LET tpl_match == First(code.ts, TemplateLines)
  IN  IF tpl_match > 0 /\ Strip[code.html] = << >>
        THEN [ts |-> insert_template_url[remove_template[code.ts, tpl_match]],
              html |-> <<TEMPLATE_BODY>>]
      ELSE code

\* str.replace of the CommonModule import by itself and the FormsModule
\* import: every occurrence.
replace_common_import[ts_code \in Text] ==
  IF ts_code = << >> THEN << >>
  ELSE IF Head(ts_code) = IMPORT_COMMON
    THEN <<IMPORT_COMMON, IMPORT_FORMS>> \o replace_common_import[Tail(ts_code)]
  ELSE <<Head(ts_code)>> \o replace_common_import[Tail(ts_code)]

\* The FormsModule import added when "@angular/forms" is not in the source.
add_forms_import[ts_code \in Text] ==
  IF First(ts_code, AngularFormsLines) > 0 THEN ts_code
  ELSE IF First(ts_code, {IMPORT_COMMON}) > 0 THEN replace_common_import[ts_code]
  ELSE <<IMPORT_FORMS>> \o ts_code

\* FormsModule added to the first imports array, or an array put in after
\* the first "@Component({".
add_to_imports_array[ts_code \in Text] ==
  LET arr == First(ts_code, ImportsArrayLines)
      deco == First(ts_code, DecoratorOpenLines)
  IN  IF arr > 0 THEN [ts_code EXCEPT ![arr] = AddToImports(ts_code[arr])]
      ELSE IF deco > 0 THEN InsertAfter(ts_code, deco, IMPORTS_INSERT)
      ELSE ts_code

\* uses_ngmodel, and what follows from it.
ensure_forms_module[code \in Code, raw \in Text] ==
  LET uses_ngmodel == \/ First(code.ts, NgModelLines) > 0
                      \/ First(code.html, NgModelLines) > 0
                      \/ First(raw, NgModelLines) > 0
  IN  IF uses_ngmodel THEN add_to_imports_array[add_forms_import[code.ts]]
      ELSE code.ts

\* Every templateUrl rewritten to the canonical file name.
normalise_template_url[ts_code \in Text] ==
  [i \in DOMAIN ts_code |-> NormaliseTemplateUrl(ts_code[i])]

\* The cleaned copy of the response that generate_component splits.
cleaned_response[raw \in Text] == strip_noise[clean_output[raw]]

\* Steps 1 to 6: the two segments, trimmed, before any rewriting.
segments[raw \in Text] ==
  LET parts == split_parts(cleaned_response[raw])
  IN  [ts |-> strip_trailing[skip_to_source[parts.ts_part]],
       html |-> strip_trailing[skip_to_markup[parts.html_part]]]

\* generate_component, from the model's response on: the artifact.
generate_component(raw) ==
  LET templated == extract_template[segments[raw]]
      ts_code == normalise_template_url[ensure_forms_module[templated, raw]]
  IN  [ts |-> Strip[ts_code], html |-> Strip[templated.html], raw |-> raw]

\* ------------------------------------------------------------ validator.py
\* design_system.json, as far as the validator reads it: the rule sets the
\* process may have been started with.
DesignSystems ==
  {[allowed_colors |-> <<"#FFFFFF">>, border_radius_values |-> <<"16px">>],
   [allowed_colors |-> <<"#ffffff", "#000000">>, border_radius_values |-> << >>]}

\* str.lower of a colour literal.
Lower(c) == IF c = "#FFFFFF" THEN "#ffffff" ELSE c

\* re.findall(r'#[0-9a-fA-F]{3,6}') on a line.
Colors[l \in STRING] ==
  CASE l \in {P_BLACK, P_BAD} -> <<"#000000">>
    [] l = P_WHITE -> <<"#FFFFFF">>
    [] OTHER -> << >>

\* border-radius\s*:\s*([0-9]+px|50%|9999px) on a line.
CssRadii[l \in STRING] ==
  CASE l = P_BAD -> <<"5px">>
    [] l = RADIUS_CSS -> <<"16px">>
    [] OTHER -> << >>

\* tailwind_map, in its order.
tailwind_map ==
  << <<"rounded-sm", "4px">>, <<"rounded", "8px">>, <<"rounded-md", "12px">>,
     <<"rounded-lg", "16px">>, <<"rounded-full", "9999px">>,
     <<"rounded-pill", "9999px">> >>

\* The tailwind tokens that are substrings of a line.
TailwindTokens(l) ==
  CASE l = ROUNDED_LG -> {"rounded", "rounded-lg"}
    [] l \in {ROUNDED_BRACKET, ROUNDED_PX} -> {"rounded"}
    [] OTHER -> {}

\* rounded-\[\s*([0-9]+px)\s*\] on a line.
BracketedRadii[l \in STRING] == IF l = ROUNDED_BRACKET THEN <<"12px">> ELSE << >>

\* rounded-([0-9]+px) on a line.
ClassRadii[l \in STRING] == IF l = ROUNDED_PX THEN <<"16px">> ELSE << >>

\* "Inter" in full_code, "@Component" in ts, "export class" in ts.
InterLines == {CLASS}
DecoratorLines == {COMPONENT_OPEN}
ExportClassLines == {CLASS}

\* str.count of a bracket character in a line.
CharCount(l, c) ==
  CASE c = "{" /\ l \in {IMPORT_COMMON, IMPORT_FORMS, COMPONENT_OPEN, CLASS, CALL_OPEN} -> 1
    [] c = "}" /\ l \in {IMPORT_COMMON, IMPORT_FORMS, COMPONENT_CLOSE, CLASS} -> 1
    [] c = "(" /\ l \in {COMPONENT_OPEN, CALL_OPEN, INPUT} -> 1
    [] c = ")" /\ l \in {COMPONENT_CLOSE, INPUT} -> 1
    [] c = "[" /\ l \in {IMPORTS_COMMON, IMPORTS_BOTH, IMPORTS_INSERT, INPUT,
                         ROUNDED_BRACKET, ARRAY_OPEN} -> 1
    [] c = "]" /\ l \in {IMPORTS_COMMON, IMPORTS_BOTH, IMPORTS_INSERT, INPUT,
                         ROUNDED_BRACKET} -> 1
    [] OTHER -> 0

\* ts.count(c)
Count[t \in Text, c \in STRING] ==
  IF t = << >> THEN 0 ELSE CharCount(Head(t), c) + Count[Tail(t), c]

\* An error message: its kind and what it names.
Error(kind, subject) == [kind |-> kind, subject |-> subject]
Errors == [kind : STRING, subject : STRING]
ErrorLists == Seq(Seq(Errors))

\* Lists of strings put end to end.
Texts == Seq(Text)
Concat[q \in Texts] ==
  IF q = << >> THEN << >> ELSE Head(q) \o Concat[Tail(q)]

\* Lists of error messages put end to end.
ConcatErrors[q \in ErrorLists] ==
  IF q = << >> THEN << >> ELSE Head(q) \o ConcatErrors[Tail(q)]

\* The matches of a pattern in a text, line after line.
FindAll(pattern, t) == Concat[[i \in DOMAIN t |-> pattern[t[i]]]]

Members(q) == {q[i] : i \in DOMAIN q}

\* 1. one UNAUTHORIZED_COLOR for every colour found that is not allowed.
color_errors(found_colors, allowed) ==
  ConcatErrors[[i \in DOMAIN found_colors |->
            IF Lower(found_colors[i]) \notin allowed
              THEN <<Error("UNAUTHORIZED_COLOR", found_colors[i])>>
              ELSE << >>]]

\* 2. MISSING_FONT
font_errors(full_code) ==
  IF First(full_code, InterLines) = 0 THEN <<Error("MISSING_FONT", "Inter")>> ELSE << >>

\* The radii of the tailwind tokens found in the text, in the map's order.
tailwind_radii(full_code) ==
  Concat[[i \in DOMAIN tailwind_map |->
            IF \E k \in DOMAIN full_code :
                 tailwind_map[i][1] \in TailwindTokens(full_code[k])
              THEN <<tailwind_map[i][2]>>
              ELSE << >>]]

detected_radii[full_code \in Text] ==
  FindAll(CssRadii, full_code) \o tailwind_radii(full_code)
  \o FindAll(BracketedRadii, full_code) \o FindAll(ClassRadii, full_code)

\* 3. UNAUTHORIZED_RADIUS, when radii are detected and none is allowed.
radius_errors[full_code \in Text, allowed_radii \in Text] ==
  LET detected == detected_radii[full_code]
      found_allowed == \E r \in Members(detected) : r \in Members(allowed_radii)
  IN  IF detected # << >> /\ ~found_allowed
        THEN <<Error("UNAUTHORIZED_RADIUS", "")>>
        ELSE << >>

\* 4. SYNTAX_ERROR for each pair whose counts differ, in the order of the
\* loop.
BracketPairs == << <<"{", "}">>, <<"(", ")">>, <<"[", "]">> >>

syntax_errors[ts \in Text] ==
  ConcatErrors[[i \in DOMAIN BracketPairs |->
            IF Count[ts, BracketPairs[i][1]] # Count[ts, BracketPairs[i][2]]
              THEN <<Error("SYNTAX_ERROR", BracketPairs[i][1] \o BracketPairs[i][2])>>
              ELSE << >>]]

\* MISSING_DECORATOR, then MISSING_CLASS.
marker_errors[ts \in Text] ==
  (IF First(ts, DecoratorLines) = 0 THEN <<Error("MISSING_DECORATOR", "")>> ELSE << >>)
  \o (IF First(ts, ExportClassLines) = 0 THEN <<Error("MISSING_CLASS", "")>> ELSE << >>)

\* The colours the rule set allows, in lower case.
allowed_colors(ds) == {Lower(c) : c \in Members(ds.allowed_colors)}

\* Mutant: the checks short-circuit, the first failing check alone reporting.
validation_errors_short_circuit(code, ds) ==
  LET full_code == code.ts \o code.html
      colors == color_errors(FindAll(Colors, full_code), allowed_colors(ds))
      font == font_errors(full_code)
      radius == radius_errors[full_code, ds.border_radius_values]
      syntax == syntax_errors[code.ts]
  IN  IF colors # << >> THEN colors
      ELSE IF font # << >> THEN font
      ELSE IF radius # << >> THEN radius
      ELSE IF syntax # << >> THEN syntax
      ELSE marker_errors[code.ts]

\* The errors, every check run, in the order of the code.
validation_errors(code, ds) ==
  LET full_code == code.ts \o code.html
  IN  color_errors(FindAll(Colors, full_code), allowed_colors(ds))
      \o font_errors(full_code)
      \o radius_errors[full_code, ds.border_radius_values]
      \o syntax_errors[code.ts]
      \o marker_errors[code.ts]

validate_component(code, ds) ==
  LET errors == validation_errors(code, ds)
  IN  [valid |-> Len(errors) = 0, errors |-> errors, error_count |-> Len(errors)]

\* ---------------------------------------------- corrector.py, the text
\* re.sub(r'---\s*HTML\s*---', '---HTML---', cleaned), on a line.
NormaliseSeparator(l) == IF l = SEP_SPACED THEN SEP ELSE l

\* The copy of a correction response that the loop splits: the fences gone,
\* the separators normalised.
normalised_response[raw \in Text] ==
  LET cleaned == clean_output[raw]
  IN  [i \in DOMAIN cleaned |-> NormaliseSeparator(cleaned[i])]

\* "---HTML---" in normalised
has_separator(normalised) == First(normalised, {SEP}) > 0

\* The split of a correction response: at the first "---HTML---", and
\* without one the markup is that of the result so far.
corrector_parts(normalised, result) ==
  LET sep == First(normalised, {SEP})
  IN  IF has_separator(normalised)
        THEN [ts_part |-> SubSeq(normalised, 1, sep - 1),
              html_part |-> SubSeq(normalised, sep + 1, Len(normalised))]
      ELSE [ts_part |-> normalised, html_part |-> result.html]

\* The result of a correction attempt, from the model's response on.
corrected_result(raw, result) ==
  LET parts == corrector_parts(normalised_response[raw], result)
  IN  [ts |-> Strip[strip_trailing[skip_to_source[parts.ts_part]]],
       html |-> Strip[strip_trailing[skip_to_markup[parts.html_part]]],
       raw |-> raw]

\* ------------------------------------------------------------------ bounds
\* Requests served in one run of the process.
MaxRequests == 2
\* Turns of the conversation a caller may send.
MaxHistory == 2
\* Lines of a response handed to the extractor alone.
MaxLen == 3
\* Lines of the source and of the markup handed to the validator alone.
MaxTsLen == 2
MaxHtmlLen == 1

\* -------------------------------------------------------------- the state
VARIABLES
  design_system,         \* DESIGN_SYSTEM["rules"], loaded at import
  pc,                    \* where the request in progress stands
  requests,              \* requests started so far
  heap,                  \* the list objects: heap[ref] is the list's value
  arg,                   \* the conversation_history argument: a ref, or None
  conversation_history,  \* the local of generate_with_correction: a ref
  user_prompt,
  messages,              \* the messages of the model call last issued
  responses,             \* what the model answered in this request, in order
  calls,                 \* model calls issued in this request
  result, validation, attempts, attempt,
  error,                 \* the exception in flight, if any
  ret,                   \* <<the dict returned>>, or << >>
  response,              \* <<the endpoint's JSON>>, or << >>
  lab_pc, lab_raw, lab_code, lab_validation  \* the functions taken alone

orch_vars ==
  <<pc, requests, heap, arg, conversation_history, user_prompt, messages, responses,
    calls, result, validation, attempts, attempt, error, ret, response>>
lab_vars == <<lab_pc, lab_raw, lab_code, lab_validation>>
vars == <<design_system, orch_vars, lab_vars>>

MAX_RETRIES == 2

None == 0
NoError == "none"
NoCode == [ts |-> << >>, html |-> << >>, raw |-> << >>]
NoValidation == [valid |-> FALSE, errors |-> << >>, error_count |-> 0]

Prompts == {"a login card"}

\* The conversation a caller holds after n turns.
Conversation(n) ==
  [i \in 1..n |-> [role |-> IF i % 2 = 1 THEN "user" ELSE "assistant",
                   content |-> [template |-> "turn", number |-> i]]]

\* What the model may answer.
VALID_FULL == <<COMPONENT_OPEN, COMPONENT_CLOSE, CLASS, SEP, DIV>>
VALID_SOURCE_ONLY == <<PROSE, COMPONENT_OPEN, COMPONENT_CLOSE, CLASS>>
BAD_COLOR == <<COMPONENT_OPEN, COMPONENT_CLOSE, CLASS, SEP_SPACED, P_BLACK>>
NO_SOURCE == <<NOISE, PROSE, DIV>>
NG_MODEL == <<FENCE, COMPONENT_OPEN, COMPONENT_CLOSE, CLASS, SEP, INPUT>>
INLINE_TEMPLATE == <<COMPONENT_OPEN, TEMPLATE, COMPONENT_CLOSE, CLASS>>
Responses ==
  {VALID_FULL, VALID_SOURCE_ONLY, BAD_COLOR, NO_SOURCE, NG_MODEL, INLINE_TEMPLATE}

\* ------------------------------------------------------- the correction loop
\* Mutant: a mutable default argument, one list shared by the calls.
history_or_shared(h, a) ==
  IF a = None
    THEN (IF Len(h) > 0 THEN [heap |-> h, ref |-> 1]
          ELSE [heap |-> Append(h, << >>), ref |-> Len(h) + 1])
  ELSE [heap |-> h, ref |-> a]

\* if conversation_history is None: conversation_history = []
\* The heap and the ref of the list the call works with.
history_or_new(h, a) ==
  IF a = None THEN [heap |-> Append(h, << >>), ref |-> Len(h) + 1]
  ELSE [heap |-> h, ref |-> a]

\* generate_component up to the model call: the messages sent, and the heap
\* after building them.
generation_call(h, ref, prompt) ==
  [messages |-> <<[role |-> "system", content |-> [template |-> "SYSTEM_PROMPT"]]>>
                \o h[ref]
                \o <<[role |-> "user",
                      content |-> [template |-> "generation", user_prompt |-> prompt]]>>,
   heap |-> h]

\* The messages of a correction call.
correction_call(val, res, ds) ==
  <<[role |-> "system", content |-> [template |-> "SYSTEM_PROMPT"]],
    [role |-> "user",
     content |-> [template |-> "CORRECTION_PROMPT", errors |-> val.errors,
                  original_code |-> res.raw]]>>

\* Mutant: range(MAX_RETRIES + 1).
loop_exhausted_one_late(a) == a >= MAX_RETRIES + 1

\* for attempt in range(MAX_RETRIES): the loop is over
loop_exhausted(a) == a >= MAX_RETRIES

\* Mutant: the break left out.
loop_never_breaks(val) == FALSE

\* if validation["valid"]: break
loop_breaks(val) == val.valid

\* Mutant: the attempt numbered from the loop index plus one.
attempt_number_off_by_one(a) == a + 1

\* {"attempt": attempt + 2, ...}
attempt_number(a) == a + 2

\* Mutant: the attempt with the fewest errors returned.
returned_best(res, val, atts) ==
  LET best == CHOOSE k \in DOMAIN atts :
                \A j \in DOMAIN atts :
                  \/ atts[k].validation.error_count < atts[j].validation.error_count
                  \/ (atts[k].validation.error_count = atts[j].validation.error_count
                      /\ k <= j)
  IN  [final_code |-> atts[best].code, validation |-> atts[best].validation,
       attempts |-> Len(atts), success |-> atts[best].validation.valid]

\* The dict returned.
returned(res, val, atts) ==
  [final_code |-> res, validation |-> val, attempts |-> Len(atts), success |-> val.valid]

\* Mutant: the exception caught, the loop going on.
after_error_swallowed == "loop"

\* Where control goes when a model call raises: nothing catches it.
after_error == "raised"

\* A caller makes its call: the state of the request before is gone.
Call(a, h, prompt) ==
  /\ pc \in {"idle", "raised"} \/ (pc = "returned" /\ arg = None)
  /\ requests < MaxRequests
  /\ requests' = requests + 1
  /\ arg' = a
  /\ heap' = h
  /\ user_prompt' = prompt
  /\ conversation_history' = None
  /\ messages' = << >>
  /\ calls' = 0
  /\ responses' = << >>
  /\ result' = NoCode
  /\ validation' = NoValidation
  /\ attempts' = << >>
  /\ attempt' = 0
  /\ error' = NoError
  /\ ret' = << >>
  /\ response' = << >>
  /\ pc' = "called"
  /\ UNCHANGED <<design_system, lab_vars>>

\* main.generate: the endpoint calls with the request's conversation.
Generate ==
  \E n \in 0..MaxHistory, prompt \in Prompts :
    Call(Len(heap) + 1, Append(heap, Conversation(n)), prompt)

\* generate_with_correction called with no conversation_history.
CallWithoutHistory == \E prompt \in Prompts : Call(None, heap, prompt)

\* generate_with_correction, up to the first model call, which
\* generate_component issues.
Start ==
  LET own == history_or_new(heap, arg)
      call == generation_call(own.heap, own.ref, user_prompt)
  IN  /\ pc = "called"
      /\ conversation_history' = own.ref
      /\ heap' = call.heap
      /\ messages' = call.messages
      /\ calls' = calls + 1
      /\ pc' = "gen_call"
      /\ UNCHANGED <<design_system, requests, arg, user_prompt, responses, result,
                     validation, attempts, attempt, error, ret, response, lab_vars>>

\* The first model call returns: extraction, validation, attempt 1.
GenReturn ==
  /\ pc = "gen_call"
  /\ \E raw \in Responses :
     \E code \in {generate_component(raw)} :
     \E val \in {validate_component(code, design_system)} :
       /\ responses' = Append(responses, raw)
       /\ result' = code
       /\ validation' = val
       /\ attempts' = <<[attempt |-> 1, code |-> code, validation |-> val]>>
       /\ attempt' = 0
       /\ pc' = "loop"
       /\ UNCHANGED <<design_system, requests, heap, arg, conversation_history,
                      user_prompt, messages, calls, error, ret, response, lab_vars>>

\* A model call raises.
CallRaises ==
  /\ pc \in {"gen_call", "corr_call"}
  /\ error' = "APIError"
  /\ pc' = after_error
  /\ UNCHANGED <<design_system, requests, heap, arg, conversation_history, user_prompt,
                 messages, responses, calls, result, validation, attempts, attempt,
                 ret, response, lab_vars>>

\* The loop goes round: the correction call is issued.
Correct ==
  /\ pc = "loop"
  /\ ~loop_exhausted(attempt)
  /\ ~loop_breaks(validation)
  /\ messages' = correction_call(validation, result, design_system)
  /\ calls' = calls + 1
  /\ pc' = "corr_call"
  /\ UNCHANGED <<design_system, requests, heap, arg, conversation_history, user_prompt,
                 responses, result, validation, attempts, attempt, error, ret, response,
                 lab_vars>>

\* The correction call returns: the inline extraction, validation, the next
\* attempt.
CorrReturn ==
  /\ pc = "corr_call"
  /\ \E raw \in Responses :
     \E code \in {corrected_result(raw, result)} :
     \E val \in {validate_component(code, design_system)} :
       /\ responses' = Append(responses, raw)
       /\ result' = code
       /\ validation' = val
       /\ attempts' = Append(attempts, [attempt |-> attempt_number(attempt),
                                        code |-> code, validation |-> val])
       /\ attempt' = attempt + 1
       /\ pc' = "loop"
       /\ UNCHANGED <<design_system, requests, heap, arg, conversation_history,
                      user_prompt, messages, calls, error, ret, response, lab_vars>>

\* The loop is left, by break or by exhaustion, and the function returns.
Return ==
  /\ pc = "loop"
  /\ loop_exhausted(attempt) \/ loop_breaks(validation)
  /\ ret' = <<returned(result, validation, attempts)>>
  /\ pc' = "returned"
  /\ UNCHANGED <<design_system, requests, heap, arg, conversation_history, user_prompt,
                 messages, responses, calls, result, validation, attempts, attempt,
                 error, response, lab_vars>>

\* main.generate: the JSON built from the result.
endpoint_response(r) ==
  [ts_code |-> r.final_code.ts, html_code |-> r.final_code.html,
   raw |-> r.final_code.raw, valid |-> r.validation.valid,
   errors |-> r.validation.errors, attempts_made |-> r.attempts]

Respond ==
  /\ pc = "returned"
  /\ arg # None
  /\ response' = <<endpoint_response(ret[1])>>
  /\ pc' = "idle"
  /\ UNCHANGED <<design_system, requests, heap, arg, conversation_history, user_prompt,
                 messages, responses, calls, result, validation, attempts, attempt,
                 error, ret, lab_vars>>

LabIdle ==
  /\ lab_pc = "off"
  /\ lab_raw = << >>
  /\ lab_code = NoCode
  /\ lab_validation = NoValidation

OrchIdle ==
  /\ pc = "idle"
  /\ requests = 0
  /\ heap = << >>
  /\ arg = None
  /\ conversation_history = None
  /\ user_prompt = ""
  /\ messages = << >>
  /\ responses = << >>
  /\ calls = 0
  /\ result = NoCode
  /\ validation = NoValidation
  /\ attempts = << >>
  /\ attempt = 0
  /\ error = NoError
  /\ ret = << >>
  /\ response = << >>

Init ==
  /\ design_system \in DesignSystems
  /\ OrchIdle
  /\ LabIdle

Next ==
  \/ Generate
  \/ CallWithoutHistory
  \/ Start
  \/ GenReturn
  \/ CallRaises
  \/ Correct
  \/ CorrReturn
  \/ Return
  \/ Respond

Spec == Init /\ [][Next]_vars

\* The process keeps running: a step that can be taken is taken.
FairSpec == Spec /\ WF_vars(Next)

\* ------------------------------------------- the functions taken alone
\* The sequences over S of length at most n.
SeqsUpTo(S, n) == UNION {[1..k -> S] : k \in 0..n}

\* The lines a response to the extractor is drawn from.
ResponseLines ==
  {FENCE, NOISE, SEP, SEP_SPACED, DASHES, PROSE, IMPORT_COMMON, COMPONENT_OPEN,
   COMPONENT_CLOSE, TEMPLATE, TEMPLATE_URL_OTHER, IMPORTS_COMMON, IMPORTS_BOTH,
   CLASS, INPUT, DIV, P_BLACK}

\* The lines the source of an artifact for the validator is drawn from.
ArtifactLines ==
  {COMPONENT_OPEN, COMPONENT_CLOSE, CLASS, CALL_OPEN, ARRAY_OPEN, P_BLACK, P_WHITE,
   P_BAD, RADIUS_CSS, ROUNDED_LG, ROUNDED_BRACKET, ROUNDED_PX}

\* The lines its markup is drawn from: what the checks on the whole code
\* read, and lines the checks on the source alone must not count.
MarkupLines ==
  {P_BLACK, P_WHITE, P_BAD, RADIUS_CSS, ROUNDED_LG, ROUNDED_BRACKET, ROUNDED_PX,
   CLASS, COMPONENT_OPEN}

InitExtract ==
  /\ design_system \in DesignSystems
  /\ OrchIdle
  /\ lab_pc = "raw"
  /\ lab_raw \in SeqsUpTo(ResponseLines, MaxLen)
  /\ lab_code = NoCode
  /\ lab_validation = NoValidation

\* generate_component on the response.
ExtractStep ==
  /\ lab_pc = "raw"
  /\ lab_code' = generate_component(lab_raw)
  /\ lab_pc' = "extracted"
  /\ UNCHANGED <<design_system, orch_vars, lab_raw, lab_validation>>

SpecExtract == InitExtract /\ [][ExtractStep]_vars

InitValidate ==
  /\ design_system \in DesignSystems
  /\ OrchIdle
  /\ lab_pc = "code"
  /\ lab_raw = << >>
  /\ lab_code \in {[ts |-> t, html |-> h, raw |-> << >>] :
                     t \in SeqsUpTo(ArtifactLines, MaxTsLen),
                     h \in SeqsUpTo(MarkupLines, MaxHtmlLen)}
  /\ lab_validation = NoValidation

\* validate_component on the artifact.
ValidateStep ==
  /\ lab_pc = "code"
  /\ lab_validation' = validate_component(lab_code, design_system)
  /\ lab_pc' = "validated"
  /\ UNCHANGED <<design_system, orch_vars, lab_raw, lab_code>>

SpecValidate == InitValidate /\ [][ValidateStep]_vars

\* ================================================================== claims
LastAttempt == attempts[Len(attempts)]
NewRequest == requests' = requests + 1

\* ---- C1
C1_Bounds ==
  /\ Len(attempts) <= 1 + MAX_RETRIES
  /\ \A k \in DOMAIN attempts : attempts[k].attempt = k
  /\ ret # << >> =>
       /\ ret[1].attempts = Len(attempts)
       /\ 1 <= ret[1].attempts
       /\ ret[1].attempts <= 1 + MAX_RETRIES

C1_AppendOnly ==
  \/ attempts' = attempts
  \/ /\ Len(attempts') = Len(attempts) + 1
     /\ SubSeq(attempts', 1, Len(attempts)) = attempts
  \/ NewRequest /\ attempts' = << >>

\* C1: every call that returns reports between 1 and 1 + MAX_RETRIES
\* attempts; the attempt log only grows by appending, and its k-th record
\* carries the number k.
C1_AttemptsBoundedAndNumbered == [][C1_Bounds' /\ C1_AppendOnly]_vars

\* A call that returned after the initial attempt and MAX_RETRIES corrections.
C1_Witness ==
  /\ pc = "returned"
  /\ ret # << >>
  /\ ret[1].attempts = 1 + MAX_RETRIES
  /\ attempts[1 + MAX_RETRIES].attempt = 1 + MAX_RETRIES

\* ---- C2
InProgress == pc \in {"called", "gen_call", "loop", "corr_call"}

\* C2: when no model call fails, a call that was made returns, and no call
\* issues more than 1 + MAX_RETRIES model calls, every attempt being invalid
\* or not.
C2_Terminates ==
  /\ [](calls <= 1 + MAX_RETRIES)
  /\ [](error = NoError) => (InProgress ~> pc = "returned")

\* A call that returned with every attempt invalid, after all its model calls.
C2_Witness ==
  /\ pc = "returned"
  /\ calls = 1 + MAX_RETRIES
  /\ \A k \in DOMAIN attempts : ~attempts[k].validation.valid

\* ---- C3
SomeValid == \E k \in DOMAIN attempts : attempts[k].validation.valid

\* C3: a correction call is issued exactly when the latest validation is
\* invalid and fewer than MAX_RETRIES corrections were made; after a valid
\* attempt no model call and no attempt record follows; a failure is returned
\* only after 1 + MAX_RETRIES attempts.
C3_CorrectionExactlyWhenInvalid ==
  [][/\ (pc' = "corr_call" /\ calls' = calls + 1)
          <=> (/\ pc = "loop"
               /\ ~LastAttempt.validation.valid
               /\ Len(attempts) - 1 < MAX_RETRIES)
     /\ SomeValid => (NewRequest \/ (calls' = calls /\ attempts' = attempts))
     /\ (ret' # << >> /\ ~ret'[1].success) => ret'[1].attempts = 1 + MAX_RETRIES
    ]_vars

\* A call accepted at its first correction.
C3_Witness ==
  /\ pc = "returned"
  /\ Len(attempts) = 2
  /\ ~attempts[1].validation.valid
  /\ ret[1].success
  /\ calls = 2

\* ---- C4
\* C4: what is returned, and what the endpoint answers, is the artifact and
\* the validation of the last attempt record, and success is that
\* validation's valid flag.
C4_ReturnsLastAttempt ==
  /\ ret # << >> =>
       /\ ret[1].final_code = LastAttempt.code
       /\ ret[1].validation = LastAttempt.validation
       /\ ret[1].success = LastAttempt.validation.valid
  /\ response # << >> =>
       /\ response[1].ts_code = LastAttempt.code.ts
       /\ response[1].html_code = LastAttempt.code.html
       /\ response[1].raw = LastAttempt.code.raw
       /\ response[1].valid = LastAttempt.validation.valid
       /\ response[1].errors = LastAttempt.validation.errors

\* The retries exhausted with errors left, an earlier attempt having fewer.
C4_Witness ==
  /\ response # << >>
  /\ Len(attempts) = 1 + MAX_RETRIES
  /\ response[1].errors # << >>
  /\ attempts[1].validation.error_count < LastAttempt.validation.error_count

\* ---- C5
\* C5: the artifact recorded for a correction attempt is what
\* generate_component makes of that attempt's response alone.
C5_CorrectionRerunsExtractor ==
  \A k \in DOMAIN attempts :
    k >= 2 => attempts[k].code = generate_component(responses[k])

\* ---- C6
\* The cleaned copy of the response of attempt k: that of generate_component
\* for the initial attempt, that of the correction loop after it.
CleanedCopy(k) ==
  IF k = 1 THEN cleaned_response[responses[k]] ELSE clean_output[responses[k]]

Rewrites(raw) ==
  LET cut == segments[raw]
      templated == extract_template[cut]
  IN  \/ templated # cut
      \/ First(templated.ts, NgModelLines) > 0
      \/ First(templated.html, NgModelLines) > 0
      \/ First(raw, NgModelLines) > 0
      \/ First(templated.ts, TemplateUrlLines) > 0

OfKind(errors, kind) == SelectSeq(errors, LAMBDA e : e.kind = kind)
About(errors, kind, subject) == SelectSeq(errors, LAMBDA e : e = Error(kind, subject))

\* The place of an error in the order of the checks.
CheckOrder(e) ==
  CASE e.kind = "UNAUTHORIZED_COLOR" -> 1
    [] e.kind = "MISSING_FONT" -> 2
    [] e.kind = "UNAUTHORIZED_RADIUS" -> 3
    [] e = Error("SYNTAX_ERROR", "{}") -> 4
    [] e = Error("SYNTAX_ERROR", "()") -> 5
    [] e = Error("SYNTAX_ERROR", "[]") -> 6
    [] e.kind = "MISSING_DECORATOR" -> 7
    [] e.kind = "MISSING_CLASS" -> 8
    [] OTHER -> 0

\* The colours found in a text that the rule set does not allow.
Unauthorized(full_code, ds) ==
  SelectSeq(FindAll(Colors, full_code), LAMBDA c : Lower(c) \notin allowed_colors(ds))

\* C7: every check of validate_component reports by its own condition alone,
\* the errors come in the order of the checks, and valid, error_count = 0 and
\* an empty error list are the same.
C7_ChecksIndependentAndOrdered ==
  lab_pc = "validated" =>
    LET errors == lab_validation.errors
        ts == lab_code.ts
        full_code == lab_code.ts \o lab_code.html
        detected == detected_radii[full_code]
        unbalanced(p) == Count[ts, p[1]] # Count[ts, p[2]]
    IN  /\ [i \in DOMAIN OfKind(errors, "UNAUTHORIZED_COLOR") |->
              OfKind(errors, "UNAUTHORIZED_COLOR")[i].subject]
             = Unauthorized(full_code, design_system)
        /\ Len(OfKind(errors, "MISSING_FONT"))
             = (IF First(full_code, InterLines) = 0 THEN 1 ELSE 0)
        /\ Len(OfKind(errors, "UNAUTHORIZED_RADIUS"))
             = (IF /\ detected # << >>
                   /\ Members(detected) \cap Members(design_system.border_radius_values) = {}
                  THEN 1 ELSE 0)
        /\ \A i \in DOMAIN BracketPairs :
             Len(About(errors, "SYNTAX_ERROR", BracketPairs[i][1] \o BracketPairs[i][2]))
               = (IF unbalanced(BracketPairs[i]) THEN 1 ELSE 0)
        /\ Len(OfKind(errors, "MISSING_DECORATOR"))
             = (IF First(ts, DecoratorLines) = 0 THEN 1 ELSE 0)
        /\ Len(OfKind(errors, "MISSING_CLASS"))
             = (IF First(ts, ExportClassLines) = 0 THEN 1 ELSE 0)
        /\ \A i \in DOMAIN errors : CheckOrder(errors[i]) > 0
        /\ \A i, j \in DOMAIN errors : i < j => CheckOrder(errors[i]) <= CheckOrder(errors[j])
        /\ lab_validation.error_count = Len(errors)
        /\ lab_validation.valid <=> lab_validation.error_count = 0
        /\ lab_validation.valid <=> errors = << >>

\* An artifact that fails every check: eight errors, of all six kinds.
C7_Witness ==
  /\ lab_pc = "validated"
  /\ lab_validation.error_count = 8
  /\ {lab_validation.errors[i].kind : i \in DOMAIN lab_validation.errors}
       = {"UNAUTHORIZED_COLOR", "MISSING_FONT", "UNAUTHORIZED_RADIUS", "SYNTAX_ERROR",
          "MISSING_DECORATOR", "MISSING_CLASS"}
  /\ ~lab_validation.valid

\* ---- C8
\* C8: a failing model call ends the call of generate_with_correction: no
\* attempt is recorded, nothing is returned, and no model call follows.
C8_ErrorPropagates ==
  [][/\ error' # NoError => (pc' = "raised" /\ ret' = << >> /\ response' = << >>)
     /\ (error = NoError /\ error' # NoError) =>
          (calls' = calls /\ attempts' = attempts)
     /\ error # NoError => NewRequest
    ]_vars

\* A correction call that failed.
C8_Witness == pc = "raised" /\ error # NoError /\ calls = 2 /\ Len(attempts) = 1

\* ---- C9
\* The forms-module imports of a source, and the imports arrays that list
\* the module.
FormsImports(ts) == Occurrences(ts, AngularFormsLines)
FormsListings(ts) == Occurrences(ts, {IMPORTS_BOTH, IMPORTS_INSERT})

\* C9: when ngModel occurs in the source, the markup or the response, and
\* the source has no forms-module import, the extracted source has exactly one
\* such import and lists the module exactly once.
C9_ExactlyOneCapability ==
  lab_pc = "extracted" =>
    LET before == extract_template[segments[lab_raw]]
        uses_ngmodel == \/ First(before.ts, NgModelLines) > 0
                        \/ First(before.html, NgModelLines) > 0
                        \/ First(lab_raw, NgModelLines) > 0
    IN  (uses_ngmodel /\ FormsImports(before.ts) = 0) =>
          /\ FormsImports(lab_code.ts) = 1
          /\ FormsListings(lab_code.ts) = 1

\* ---- C10
\* C10: no list that exists is changed by a step; a call without a
\* conversation works on a new empty list, a call with one on the caller's.
C10_ContextNotMutated ==
  [][/\ \A ref \in DOMAIN heap : ref \in DOMAIN heap' /\ heap'[ref] = heap[ref]
     /\ (pc = "called" /\ pc' = "gen_call") =>
          IF arg = None
            THEN /\ conversation_history' \notin DOMAIN heap
                 /\ heap'[conversation_history'] = << >>
            ELSE conversation_history' = arg
    ]_vars

\* A second call without a conversation, after a call that had one, all
\* attempts made.
C10_Witness ==
  /\ requests = 2
  /\ arg = None
  /\ pc = "returned"
  /\ Len(attempts) = 1 + MAX_RETRIES
  /\ \E ref \in DOMAIN heap : Len(heap[ref]) = MaxHistory

====
